---- MODULE Spec2Model ----
(***************************************************************************)
(* Model of the schema engine (src/object_definition.rs), the rendering    *)
(* pipeline and the template types (src/page.rs), the file watcher         *)
(* (src/file_system_stdlib.rs) and the build command                       *)
(* (src/binary/command/build.rs) of the-simplest-cms.                      *)
(*                                                                         *)
(* A TOML table is a sequence of entries with pairwise distinct keys; the  *)
(* sequence order is the table's iteration order.  A value is a string, a  *)
(* table, or something else (integer, boolean, array, ...).                *)
(***************************************************************************)
EXTENDS Integers, Sequences, FiniteSets, TLC

VARIABLES
    table,        \* the toml::Table handed to ObjectDefinition::new / from_table
    call,         \* which entry point was called on it, and with which name
    result,       \* the Result the call returned
    objects_map,  \* the registry's HashMap<String, Vec<Object>>
    definitions,  \* the registry's ObjectDefinitions, by schema name
    page,         \* the Page the caller holds (it borrows from the registry)
    out,          \* what the last Page::render call on `page` returned
    ext,          \* the file extension handed to TemplateType::from_ext
    template_type,\* the TemplateType from_ext returned
    ext_out,      \* what TemplateType::extension returned for it
    watch_pc,     \* how far NativeFileSystem::watch has got
    watch_paths,  \* the watch_paths argument of watch
    events,       \* the notify results delivered to the watcher's handler so far
    changed_calls,\* the path lists `changed` has been invoked with, in order
    build_pc,     \* the statement the build command's handler is at
    build_dir,    \* the build directory on disk
    build_dir_before, \* the build directory when the handler was entered
    build_log,    \* the steps the handler has run, each with its outcome
    build_result  \* what the handler returned

\* ------------------------------------------------------------------ bounds

\* Greatest number of entries of a schema source table, nested tables included.
MaxEntries == 3

\* Greatest number of Objects in objects_map, all schemas together.
MaxObjects == 2

\* How many notify results the watcher's handler receives.
MaxEvents == 2

\* ------------------------------------------------------------ TOML values

StrVal(s) == [kind |-> "str", s |-> s, t |-> <<>>]
TableVal(t) == [kind |-> "table", s |-> "", t |-> t]
\* An integer, boolean, array, ...: as_table() and as_str() are both None.
OtherVal == [kind |-> "other", s |-> "", t |-> <<>>]

as_table(v) == v.kind = "table"
as_str(v) == v.kind = "str"

TEMPLATE == "template"

\* The five literal type names of FieldType::from_str.
TypeNames == {"string", "number", "date", "markdown", "boolean"}
\* The strings of the input tables: the type names and one that names no type.
StringValues == TypeNames \cup {"artist"}
ScalarVals == {StrVal(s) : s \in StringValues} \cup {OtherVal}

\* Keys of the input tables: an ordinary key, the template keyword and
\* another reserved word.
Keys == {"name", TEMPLATE, "order"}

\* The entries of m >= 1 entries in all (the entry itself and those of the
\* table it holds), given the tables of m - 1 entries.
EntriesN(m, smaller) ==
    {[key |-> k, val |-> v] :
        k \in Keys,
        v \in (IF m = 1 THEN ScalarVals ELSE {}) \cup {TableVal(sub) : sub \in smaller}}

HasKey(tbl, k) == \E i \in 1..Len(tbl) : tbl[i].key = k

RECURSIVE TableLevels(_)
\* <<T0, ..., Tn>>: Tm is the set of tables of exactly m entries (nested ones
\* counted), keys pairwise distinct within a table, in every iteration order.
TableLevels(n) ==
    IF n = 0 THEN <<{<<>>}>>
    ELSE LET prev == TableLevels(n - 1)
             level == UNION {
                 {<<p[1]>> \o p[2] :
                     p \in {q \in EntriesN(m, prev[m]) \X prev[n - m + 1] :
                               ~HasKey(q[2], q[1].key)}}
                 : m \in 1..n}
         IN  Append(prev, level)

\* table is one of the tables of at most MaxEntries entries.
IsInputTable(tbl) ==
    \/ tbl = <<>>
    \/ \E n \in 1..MaxEntries, m \in 1..MaxEntries :
        /\ m <= n
        /\ LET levels == TableLevels(MaxEntries - 1)
           IN  \E e \in EntriesN(m, levels[m]), rest \in levels[n - m + 1] :
                   /\ ~HasKey(rest, e.key)
                   /\ tbl = <<e>> \o rest

\* ------------------------------------------------------- reserved_fields

\* reserved_fields::is_reserved_field: the template keyword and the
\* metadata keys.
ReservedWords == {TEMPLATE, "object_name", "order", "path"}
is_reserved_field(field) == field \in ReservedWords
reserved_field_from_str(key) == <<"ReservedField", key>>

\* ------------------------------------------------------------- results

Ok(v) == [ok |-> TRUE, val |-> v]
Err(e) == [ok |-> FALSE, err |-> e]

UnrecognizedType(s) == [kind |-> "UnrecognizedType", arg |-> s]
ReservedObjectNameError(name) == [kind |-> "ReservedObjectNameError", arg |-> name]
ReservedFieldError(key) ==
    [kind |-> "ReservedFieldError", field |-> reserved_field_from_str(key)]

None == [some |-> FALSE, v |-> ""]
Some(v) == [some |-> TRUE, v |-> v]

\* ------------------------------------------------------------ FieldType

\* Mutant: an unknown type name silently becomes a String field.
FieldType_from_str_CatchAll(string) ==
    CASE string = "string" -> Ok("String")
      [] string = "number" -> Ok("Number")
      [] string = "date" -> Ok("Date")
      [] string = "markdown" -> Ok("Markdown")
      [] string = "boolean" -> Ok("Boolean")
      [] OTHER -> Ok("String")

FieldType_from_str(string) ==
    CASE string = "string" -> Ok("String")
      [] string = "number" -> Ok("Number")
      [] string = "date" -> Ok("Date")
      [] string = "markdown" -> Ok("Markdown")
      [] string = "boolean" -> Ok("Boolean")
      [] OTHER -> Err(UnrecognizedType(string))

\* ----------------------------------------------------- ObjectDefinition

\* HashMap::insert: the new value replaces an old one under the same key.
MapInsert(map, k, v) == (k :> v) @@ map
EmptyMap == <<>>

NewObjDef(name) ==
    [name |-> name, fields |-> EmptyMap, field_order |-> <<>>,
     template |-> None, children |-> EmptyMap]

\* Mutant: the template key is not recorded in field_order.
PushFieldOrder_SkipTemplate(obj_def, key) ==
    IF key = TEMPLATE THEN obj_def
    ELSE [obj_def EXCEPT !.field_order = Append(@, key)]

PushFieldOrder(obj_def, key) ==
    [obj_def EXCEPT !.field_order = Append(@, key)]

InsertChild(obj_def, key, child) ==
    [obj_def EXCEPT !.children = MapInsert(@, key, child)]

\* Mutant: the template entry is copied into fields as well.
SetTemplate_AlsoField(obj_def, value) ==
    [obj_def EXCEPT !.template = Some(value),
                    !.fields = MapInsert(@, TEMPLATE, "String")]

SetTemplate(obj_def, value) ==
    [obj_def EXCEPT !.template = Some(value)]

InsertField(obj_def, key, field_type) ==
    [obj_def EXCEPT !.fields = MapInsert(@, key, field_type)]

\* Mutant: the reserved-word check of string-valued keys is missing.
StringEntry_NoReservedCheck(obj_def, key, value) ==
    IF key = TEMPLATE THEN Ok(SetTemplate(obj_def, value))
    ELSE LET ft == FieldType_from_str(value)
         IN  IF ft.ok THEN Ok(InsertField(obj_def, key, ft.val)) ELSE ft

\* The as_str() branch of the loop body: Ok(obj_def) or the error returned.
StringEntry(obj_def, key, value) ==
    IF key = TEMPLATE THEN Ok(SetTemplate(obj_def, value))
    ELSE IF is_reserved_field(key) THEN Err(ReservedFieldError(key))
    ELSE LET ft == FieldType_from_str(value)
         IN  IF ft.ok THEN Ok(InsertField(obj_def, key, ft.val)) ELSE ft

RECURSIVE ObjectDefinition_new(_, _)

\* Mutant: a value that is neither a table nor a string becomes a String
\* field instead of being skipped.
NewEntry_OtherIsField(obj_def, key, m_value) ==
    LET pushed == PushFieldOrder(obj_def, key)
    IN  IF as_table(m_value)
        THEN LET child == ObjectDefinition_new(key, m_value.t)
             IN  IF child.ok THEN Ok(InsertChild(pushed, key, child.val)) ELSE child
        ELSE IF as_str(m_value)
        THEN StringEntry(pushed, key, m_value.s)
        ELSE Ok(InsertField(pushed, key, "String"))

\* One iteration of the for loop of ObjectDefinition::new: Ok(obj_def) to go
\* on with, or the error the call returns.
NewEntry(obj_def, key, m_value) ==
    LET pushed == PushFieldOrder(obj_def, key)
    IN  IF as_table(m_value)
        THEN LET child == ObjectDefinition_new(key, m_value.t)
             IN  IF child.ok THEN Ok(InsertChild(pushed, key, child.val)) ELSE child
        ELSE IF as_str(m_value)
        THEN StringEntry(pushed, key, m_value.s)
        ELSE Ok(pushed)

RECURSIVE NewLoop(_, _, _)
\* The for loop of ObjectDefinition::new from entry i on.
NewLoop(obj_def, definition, i) ==
    IF i > Len(definition) THEN Ok(obj_def)
    ELSE LET r == NewEntry(obj_def, definition[i].key, definition[i].val)
         IN  IF r.ok THEN NewLoop(r.val, definition, i + 1) ELSE r

ObjectDefinition_new(name, definition) ==
    IF is_reserved_field(name)
    THEN Err(ReservedObjectNameError(name))
    ELSE NewLoop(NewObjDef(name), definition, 1)

\* Mutant: a table that fails to parse is skipped instead of failing the call.
FromTableEntry_SkipInvalid(objects, name, m_def) ==
    IF as_table(m_def)
    THEN LET d == ObjectDefinition_new(name, m_def.t)
         IN  IF d.ok THEN Ok(MapInsert(objects, name, d.val)) ELSE Ok(objects)
    ELSE Ok(objects)

\* One iteration of the for loop of ObjectDefinition::from_table.
FromTableEntry(objects, name, m_def) ==
    IF as_table(m_def)
    THEN LET d == ObjectDefinition_new(name, m_def.t)
         IN  IF d.ok THEN Ok(MapInsert(objects, name, d.val)) ELSE d
    ELSE Ok(objects)

RECURSIVE FromTableLoop(_, _, _)
FromTableLoop(objects, tbl, i) ==
    IF i > Len(tbl) THEN Ok(objects)
    ELSE LET r == FromTableEntry(objects, tbl[i].key, tbl[i].val)
         IN  IF r.ok THEN FromTableLoop(r.val, tbl, i + 1) ELSE r

ObjectDefinition_from_table(tbl) == FromTableLoop(EmptyMap, tbl, 1)

\* ------------------------------------------------------- liquid values

\* liquid::model::Value: a scalar (string or integer), an array, an object.
LScalar(s) == [scalar |-> s]
LInt(i) == [int |-> i]
LArray(seq) == [array |-> seq]
LObject(map) == [object |-> map]

\* Extend for a liquid Object (a hash map): every pair of `other` is
\* inserted, replacing what `map` held under the same key.
Extend(map, other) == other @@ map

\* ------------------------------------------------------------- Objects

ObjectNames == {"artist", "c"}
Filenames == {"a", "b"}
\* Object::order is signed; -1 is what an object without an order carries.
Orders == {-1, 1}
PlainValues == ("name" :> "Rey")
\* A values map whose keys collide with the keys render computes.
ShadowingValues ==
    ("name" :> "Rey") @@ ("object_name" :> "other") @@ ("order" :> "first")
        @@ ("path" :> "elsewhere")
ValueMaps == {PlainValues, ShadowingValues}

PathOf ==
    [artist |-> [a |-> "artist/a", b |-> "artist/b"],
     c |-> [a |-> "c/a", b |-> "c/b"]]

Object(object_name, filename, order, values) ==
    [filename |-> filename, object_name |-> object_name,
     path |-> PathOf[object_name][filename], order |-> order, values |-> values]

\* The Vec<Object> values of one schema: file names are unique in a schema.
ObjectSeqs(object_name) ==
    LET pool == {Object(object_name, f, o, v) :
                    f \in Filenames, o \in Orders, v \in ValueMaps}
    IN  {seq \in UNION {[1..n -> pool] : n \in 0..Cardinality(Filenames)} :
            \A i, j \in 1..Len(seq) : i # j => seq[i].filename # seq[j].filename}

TotalObjects(map) ==
    LET RECURSIVE Sum(_)
        Sum(names) == IF names = {} THEN 0
                      ELSE LET n == CHOOSE n \in names : TRUE
                           IN  Len(map[n]) + Sum(names \ {n})
    IN  Sum(DOMAIN map)

\* FieldValue to liquid (ValueView for FieldValue): a string field becomes a
\* liquid scalar.
FieldValue_to_value(v) == LScalar(v)

\* object.values.to_value(): the liquid object mirroring the values map.
values_to_value(values) ==
    LObject([k \in DOMAIN values |-> FieldValue_to_value(values[k])])

\* The three keys render computes from the Object itself.
ComputedKeys(object) ==
    ("object_name" :> LScalar(object.object_name))
        @@ ("order" :> LInt(object.order))
        @@ ("path" :> LScalar(object.path))

\* Object::liquid_object: the values and the object's metadata.
liquid_object(object) ==
    LObject(Extend(values_to_value(object.values).object, ComputedKeys(object)))

\* ------------------------------------------------------ ObjectDefinitions

\* Definitions built in place, as tests::artist_definition builds one: any
\* name can be given.
DefinitionNames == {"artist", "objects", "page"}
DefinitionNamed(name) ==
    [name |-> name, fields |-> ("name" :> "String"), field_order |-> <<"name">>,
     template |-> Some(name), children |-> EmptyMap]

\* ----------------------------------------------------------------- Page

NoPage == [none |-> TRUE]
IsPage(p) == "name" \in DOMAIN p
NoTemplate == [some |-> FALSE]
SomeTemplate(t) == [some |-> TRUE, v |-> t]

PageNames == {"home"}
\* Template sources: one that parses and renders, one the parser rejects,
\* one that parses and fails to render.
Contents == {"{{ page }}", "{% for", "{{ 1 | no_such_filter }}"}

\* A reference to an Object of objects_map, as &'a Object.
ObjectRefs(map) ==
    {[schema |-> n, index |-> i] : n \in DOMAIN map, i \in 1..MaxObjects}
        \cap {r \in [schema : DOMAIN map, index : 1..MaxObjects] :
                 r.index <= Len(map[r.schema])}
Deref(map, ref) == map[ref.schema][ref.index]

\* Mutant: the constructor forgets the content.
Page_new_NoContent(name, content, file_type) ==
    [name |-> name, content |-> None, template |-> NoTemplate,
     file_type |-> file_type]

Page_new(name, content, file_type) ==
    [name |-> name, content |-> Some(content), template |-> NoTemplate,
     file_type |-> file_type]

Page_new_with_template(name, definition, object, content, file_type) ==
    [name |-> name, content |-> None,
     template |-> SomeTemplate([definition |-> definition, object |-> object,
                                content |-> content, file_type |-> file_type]),
     file_type |-> file_type]

\* parser.parse: the parsed template, or the parser's error.
parser_parse(content) ==
    IF content = "{% for" THEN Err([kind |-> "liquid::Error", arg |-> "parse"])
    ELSE Ok(content)

\* template.render: what the engine makes of the template and the context
\* it is handed, or the engine's error.
template_render(template, context) ==
    IF template = "{{ 1 | no_such_filter }}"
    THEN Err([kind |-> "liquid::Error", arg |-> "render"])
    ELSE Ok([template |-> template, context |-> context])

\* toml::to_string of the context, made for the debug log: a context of
\* scalars, arrays and objects serialises.
toml_to_string(context) == Ok("toml")

Panic == Err([kind |-> "panic", arg |-> "Pages must have either a template or a path"])

\* The `objects` map render builds from objects_map.
RenderObjects(map) ==
    [name \in DOMAIN map |->
        LArray([i \in 1..Len(map[name]) |-> liquid_object(map[name][i])])]

Globals(self, map) ==
    ("objects" :> LObject(RenderObjects(map))) @@ ("page" :> LScalar(self.name))

\* object_vals after the three computed keys were added to it.
ObjectVals(object) ==
    Extend(values_to_value(object.values).object, ComputedKeys(object))

\* The context of a schema-bound page: the schema-named key, then the
\* globals merged into it.
TemplateContext(self, map, defs) ==
    LET template_info == self.template.v
        object == Deref(map, template_info.object)
        context == (defs[template_info.definition].name
                        :> LObject(ObjectVals(object)))
    IN  Extend(context, Globals(self, map))

Page_render(self, map, defs) ==
    IF self.template.some
    THEN LET template == parser_parse(self.template.v.content)
             context == TemplateContext(self, map, defs)
         IN  IF ~template.ok THEN template
             ELSE IF ~toml_to_string(context).ok THEN toml_to_string(context)
             ELSE template_render(template.val, context)
    ELSE IF self.content.some
    THEN LET globals == Globals(self, map)
             template == parser_parse(self.content.v)
         IN  IF ~toml_to_string(globals).ok THEN toml_to_string(globals)
             ELSE IF ~template.ok THEN template
             ELSE template_render(template.val, globals)
    ELSE Panic

\* Mutant: the computed keys are added to the Object's own values map.
ObjectsAfterRender_Enrich(self, map) ==
    IF self.template.some
    THEN LET ref == self.template.v.object
             object == Deref(map, ref)
         IN  [map EXCEPT ![ref.schema][ref.index].values =
                 ("object_name" :> object.object_name) @@ ("path" :> object.path) @@ @]
    ELSE map

\* objects_map after a render call: render holds a shared borrow of it.
ObjectsAfterRender(self, map) == map

\* ------------------------------------------------------- template types
\* A string is the sequence of its characters, so that letter case is part
\* of the value.

Str_html == <<"h", "t", "m", "l">>
Str_css == <<"c", "s", "s">>
Str_csv == <<"c", "s", "v">>
Str_json == <<"j", "s", "o", "n">>
Str_rss == <<"r", "s", "s">>
Str_empty == <<>>

\* str::to_lowercase on one character.
char_to_lowercase(c) ==
    CASE c = "C" -> "c" [] c = "D" -> "d" [] c = "H" -> "h" [] c = "J" -> "j"
      [] c = "L" -> "l" [] c = "M" -> "m" [] c = "N" -> "n" [] c = "O" -> "o"
      [] c = "R" -> "r" [] c = "S" -> "s" [] c = "T" -> "t" [] c = "V" -> "v"
      [] c = "X" -> "x"
      [] OTHER -> c

to_lowercase(s) == [i \in 1..Len(s) |-> char_to_lowercase(s[i])]

\* enum TemplateType; r is the payload of Unknown.
TemplateType(type) == [type |-> type, r |-> <<>>]
Unknown(r) == [type |-> "Unknown", r |-> r]

\* TemplateType::from_ext: the match is on the lower-cased extension.
TemplateType_from_ext(e) ==
    LET l == to_lowercase(e)
    IN  CASE l = Str_html -> TemplateType("Html")
          [] l = Str_css -> TemplateType("Css")
          [] l = Str_csv -> TemplateType("Csv")
          [] l = Str_json -> TemplateType("Json")
          [] l = Str_rss -> TemplateType("Rss")
          [] l = Str_empty -> TemplateType("Default")
          [] OTHER -> Unknown(l)

\* The match of TemplateType::extension, arm by arm: the Csv arm yields "css".
TemplateType_extension(self) ==
    CASE self.type = "Default" -> Str_html
      [] self.type = "Html" -> Str_html
      [] self.type = "Css" -> Str_css
      [] self.type = "Csv" -> Str_css
      [] self.type = "Json" -> Str_json
      [] self.type = "Rss" -> Str_rss
      [] self.type = "Unknown" -> self.r

NoType == [type |-> "none", r |-> <<>>]
NoExt == [none |-> TRUE]
IsExt(o) == "s" \in DOMAIN o

\* ------------------------------------------------------- file watching
\* A path is the sequence of its components; an absolute path starts with
\* the root component "/".

\* fs::canonicalize(self.get_path(&root)), when it succeeds.
Root == <<"/", "site">>

\* Paths notify reports.
P_page == <<"/", "site", "pages", "a">>
P_pages2 == <<"/", "site", "pages2", "a">>
P_object == <<"/", "site", "objects", "b">>
P_layout == <<"/", "site", "layout", "c">>
P_gone == <<"/", "site", "pages", "gone">>
P_link == <<"/", "site", "pages", "link">>
P_outside == <<"/", "tmp", "x">>
EventPaths == {P_page, P_pages2, P_object, P_layout, P_gone, P_link, P_outside}

IoError == [kind |-> "io::Error", arg |-> ""]
StripPrefixError == [kind |-> "StripPrefixError", arg |-> ""]
NotifyError == [kind |-> "notify::Error", arg |-> ""]

\* fs::canonicalize on the file system the events come from: P_gone no
\* longer exists, P_link is a symbolic link to a file outside the root, every
\* other path is canonical already.
canonicalize(p) ==
    IF p = P_gone THEN Err(IoError)
    ELSE IF p = P_link THEN Ok(<<"/", "tmp", "t">>)
    ELSE Ok(p)

\* Path::starts_with: base is a prefix of p, component by component.
starts_with(p, base) ==
    /\ Len(base) <= Len(p)
    /\ \A i \in 1..Len(base) : p[i] = base[i]

\* Path::strip_prefix.
strip_prefix(p, base) ==
    IF starts_with(p, base)
    THEN Ok(SubSeq(p, Len(base) + 1, Len(p)))
    ELSE Err(StripPrefixError)

\* The directory a watch path is compared as: relative to the root when it
\* is given under the root, as given otherwise.
watch_dir(dir, root) ==
    LET stripped == strip_prefix(dir, root)
    IN  IF stripped.ok THEN stripped.val ELSE dir

\* Mutant: a path that does not canonicalize is kept.
filter_path_KeepUncanonical(p, root, dirs) ==
    LET f == canonicalize(p)
    IN  IF ~f.ok THEN TRUE
        ELSE LET rel == strip_prefix(f.val, root)
             IN  IF rel.ok
                 THEN \E i \in 1..Len(dirs) :
                        starts_with(rel.val, watch_dir(dirs[i], root))
                 ELSE TRUE

\* The closure handed to filter() in the watcher's event handler.
filter_path(p, root, dirs) ==
    LET f == canonicalize(p)
    IN  IF ~f.ok THEN FALSE
        ELSE LET rel == strip_prefix(f.val, root)
             IN  IF rel.ok
                 THEN \E i \in 1..Len(dirs) :
                        starts_with(rel.val, watch_dir(dirs[i], root))
                 ELSE TRUE

\* event.paths.into_iter().filter(..).collect()
changed_paths(paths, root, dirs) ==
    LET keep(p) == filter_path(p, root, dirs)
    IN  SelectSeq(paths, keep)

\* The watcher's event handler: what `changed` has been invoked with after
\* the handler ran on res.
handle_event(calls, res, root, dirs) ==
    IF res.ok
    THEN LET kept == changed_paths(res.val, root, dirs)
         IN  IF kept # <<>> THEN Append(calls, kept) ELSE calls
    ELSE calls

\* ------------------------------------------------------ the build command
\* The build directory is absent or holds some of: a file of an earlier
\* build, a copied static file, a rendered page.

Absent == [exists |-> FALSE, files |-> {}]
Dir(files) == [exists |-> TRUE, files |-> files]
BuildFiles == {"stale", "static", "page"}
BuildDirs == {Absent} \cup {Dir(files) : files \in SUBSET BuildFiles}

ExitStatus_Ok == "ExitStatus::Ok"
LoadError == [kind |-> "Site::load", arg |-> ""]
SyncError == [kind |-> "Site::sync_static_files", arg |-> ""]
BuildError == [kind |-> "Site::build", arg |-> ""]

\* Site::load(&fs) holds a shared borrow of the file system, and every
\* FileSystemAPI method that removes or writes takes &mut self.
Site_load_dirs(dir) == {dir}

\* NativeFileSystem::remove_dir_all: the outcomes of fs::remove_dir_all, as
\* pairs of success and the directory left behind.  An absent directory is
\* an error; a failed removal leaves the directory with any part of its
\* files.
remove_dir_all(dir) ==
    IF ~dir.exists THEN {<<FALSE, dir>>}
    ELSE {<<TRUE, Absent>>} \cup {<<FALSE, Dir(left)>> : left \in SUBSET dir.files}

\* What a step holding &mut fs leaves in the build directory: on success the
\* files it produces are there, on failure any part of them.
written_dirs(dir, ok, produced) ==
    IF ok THEN {Dir(dir.files \cup produced)}
    ELSE {dir} \cup {Dir(dir.files \cup part) : part \in SUBSET produced}

Site_sync_static_files_dirs(dir, ok) == written_dirs(dir, ok, {"static"})
Site_build_dirs(dir, ok) == written_dirs(dir, ok, {"page"})

\* Mutant: a failed remove_dir_all ends the handler.
handler_next_RemoveChecked(step, ok) ==
    CASE step = "load" -> IF ok THEN "remove_dir_all" ELSE "return"
      [] step = "remove_dir_all" -> IF ok THEN "sync_static_files" ELSE "return"
      [] step = "sync_static_files" -> IF ok THEN "build" ELSE "return"
      [] step = "build" -> "return"

\* The statement the handler goes to after a step: `?` returns on an error,
\* `let _ =` drops the result.
handler_next(step, ok) ==
    CASE step = "load" -> IF ok THEN "remove_dir_all" ELSE "return"
      [] step = "remove_dir_all" -> "sync_static_files"
      [] step = "sync_static_files" -> IF ok THEN "build" ELSE "return"
      [] step = "build" -> "return"

\* What the handler has returned once a step is over: the error of a step
\* under `?`, Ok(ExitStatus::Ok) after build, nothing yet otherwise.
NoExit == [none |-> TRUE]
handler_result(step, ok, error) ==
    IF handler_next(step, ok) # "return" THEN NoExit
    ELSE IF ok THEN [res |-> Ok(ExitStatus_Ok)]
    ELSE [res |-> Err(error)]

\* ------------------------------------------------------------ the calls

NoCall == [op |-> "none", name |-> ""]
NoResult == [ok |-> FALSE, err |-> [kind |-> "NotCalled", arg |-> ""]]
NoOut == [none |-> TRUE]
IsOut(o) == "res" \in DOMAIN o

\* Schema names ObjectDefinition::new is called with.
SchemaNames == {"artist", TEMPLATE, "order"}

vars == <<table, call, result, objects_map, definitions, page, out,
          ext, template_type, ext_out,
          watch_pc, watch_paths, events, changed_calls,
          build_pc, build_dir, build_dir_before, build_log, build_result>>
parseVars == <<table, call, result>>
renderVars == <<objects_map, definitions, page, out>>
typeVars == <<ext, template_type, ext_out>>
watchVars == <<watch_pc, watch_paths, events, changed_calls>>
buildVars == <<build_pc, build_dir, build_dir_before, build_log, build_result>>

\* No TemplateType call is under way.
IdleType == ext = Str_empty /\ template_type = NoType /\ ext_out = NoExt

\* The build command has not been run.
IdleBuild ==
    /\ build_pc = "load"
    /\ build_dir = Absent
    /\ build_dir_before = Absent
    /\ build_log = <<>>
    /\ build_result = NoExit

\* NativeFileSystem::watch has not been called.
IdleWatch ==
    /\ watch_pc = "idle"
    /\ watch_paths = <<>>
    /\ events = <<>>
    /\ changed_calls = <<>>

Registry == [name \in DefinitionNames |-> DefinitionNamed(name)]

\* No schema call is under way; the registry holds no objects and no page.
IdleParse == table = <<>> /\ call = NoCall /\ result = NoResult
IdleRender ==
    /\ objects_map = [name \in ObjectNames |-> <<>>]
    /\ definitions = Registry
    /\ page = NoPage
    /\ out = NoOut

InitParse ==
    /\ IsInputTable(table)
    /\ call = NoCall
    /\ result = NoResult
    /\ objects_map = [name \in ObjectNames |-> <<>>]
    /\ definitions = Registry
    /\ page = NoPage
    /\ out = NoOut
    /\ IdleType
    /\ IdleWatch
    /\ IdleBuild

CallNew ==
    /\ call.op = "none"
    /\ \E name \in SchemaNames :
        /\ call' = [op |-> "new", name |-> name]
        /\ result' = ObjectDefinition_new(name, table)
    /\ UNCHANGED <<table, renderVars, typeVars, watchVars, buildVars>>

CallFromTable ==
    /\ call.op = "none"
    /\ call' = [op |-> "from_table", name |-> ""]
    /\ result' = ObjectDefinition_from_table(table)
    /\ UNCHANGED <<table, renderVars, typeVars, watchVars, buildVars>>

NextParse == CallNew \/ CallFromTable

SpecParse == InitParse /\ [][NextParse]_vars

InitRender ==
    /\ table = <<>>
    /\ call = NoCall
    /\ result = NoResult
    /\ objects_map \in {m \in [ObjectNames -> UNION {ObjectSeqs(n) : n \in ObjectNames}] :
                          /\ \A n \in ObjectNames : m[n] \in ObjectSeqs(n)
                          /\ TotalObjects(m) <= MaxObjects}
    /\ definitions = Registry
    /\ page = NoPage
    /\ out = NoOut
    /\ IdleType
    /\ IdleWatch
    /\ IdleBuild

\* The caller builds a plain page.
NewPage ==
    /\ \E name \in PageNames, content \in Contents :
        page' = Page_new(name, content, "Default")
    /\ out' = NoOut
    /\ UNCHANGED <<parseVars, objects_map, definitions, typeVars, watchVars, buildVars>>

\* The caller builds a schema-bound page for one Object of the registry.
NewPageWithTemplate ==
    /\ \E name \in PageNames, definition \in DOMAIN definitions,
          object \in ObjectRefs(objects_map), content \in Contents :
        page' = Page_new_with_template(name, definition, object, content, "Default")
    /\ out' = NoOut
    /\ UNCHANGED <<parseVars, objects_map, definitions, typeVars, watchVars, buildVars>>

Render ==
    /\ IsPage(page)
    /\ out' = [res |-> Page_render(page, objects_map, definitions)]
    /\ objects_map' = ObjectsAfterRender(page, objects_map)
    /\ UNCHANGED <<parseVars, definitions, page, typeVars, watchVars, buildVars>>

NextRender == NewPage \/ NewPageWithTemplate \/ Render

SpecRender == InitRender /\ [][NextRender]_vars

\* --- TemplateType::from_ext followed by TemplateType::extension

\* The extensions the type names are spelled with, and two that name no type.
ExtWords == {Str_html, Str_css, Str_csv, Str_json, Str_rss, Str_empty,
             <<"t", "x", "t">>, <<"m", "d">>}

char_to_uppercase(c) ==
    CASE c = "c" -> "C" [] c = "d" -> "D" [] c = "h" -> "H" [] c = "j" -> "J"
      [] c = "l" -> "L" [] c = "m" -> "M" [] c = "n" -> "N" [] c = "o" -> "O"
      [] c = "r" -> "R" [] c = "s" -> "S" [] c = "t" -> "T" [] c = "v" -> "V"
      [] c = "x" -> "X"
      [] OTHER -> c

\* Every spelling of the lower-case word w in mixed letter case.
CaseVariants(w) ==
    {[i \in 1..Len(w) |-> IF i \in up THEN char_to_uppercase(w[i]) ELSE w[i]] :
        up \in SUBSET (1..Len(w))}

InitType ==
    /\ IdleParse
    /\ IdleRender
    /\ \E w \in ExtWords : ext \in CaseVariants(w)
    /\ template_type = NoType
    /\ ext_out = NoExt
    /\ IdleWatch
    /\ IdleBuild

FromExt ==
    /\ template_type = NoType
    /\ template_type' = TemplateType_from_ext(ext)
    /\ UNCHANGED <<parseVars, renderVars, ext, ext_out, watchVars, buildVars>>

Extension ==
    /\ template_type # NoType
    /\ ext_out = NoExt
    /\ ext_out' = [s |-> TemplateType_extension(template_type)]
    /\ UNCHANGED <<parseVars, renderVars, ext, template_type, watchVars, buildVars>>

NextType == FromExt \/ Extension

SpecType == InitType /\ [][NextType]_vars

\* --- NativeFileSystem::watch and the watcher's event handler

\* The watch_paths lists watch is called with: relative directories,
\* directories given as absolute paths under the root, the root itself.
Dir_pages == <<"pages">>
Dir_objects == <<"/", "site", "objects">>
WatchPathLists == {<<>>, <<Dir_pages>>, <<Dir_objects>>,
                   <<Dir_pages, Dir_objects>>, <<Root>>}

\* The results notify hands to the handler: an event with no path, one path
\* or two different paths, or an error.
EventPathLists ==
    {<<>>} \cup {<<p>> : p \in EventPaths}
           \cup {pq \in EventPaths \X EventPaths : pq[1] # pq[2]}
EventResults == {Ok(paths) : paths \in EventPathLists} \cup {Err(NotifyError)}

InitWatch ==
    /\ IdleParse
    /\ IdleRender
    /\ IdleType
    /\ watch_pc = "idle"
    /\ watch_paths \in WatchPathLists
    /\ events = <<>>
    /\ changed_calls = <<>>
    /\ IdleBuild

\* watch canonicalizes the root, panicking in the unwrap when that fails,
\* and then calls changed(vec![]).
WatchBegin ==
    /\ watch_pc = "idle"
    /\ \E root_ok \in BOOLEAN :
          IF root_ok
          THEN /\ changed_calls' = Append(changed_calls, <<>>)
               /\ watch_pc' = "notified"
          ELSE /\ changed_calls' = changed_calls
               /\ watch_pc' = "panicked"
    /\ UNCHANGED <<parseVars, renderVars, typeVars, buildVars, watch_paths, events>>

\* notify::recommended_watcher(..)?
WatchCreate ==
    /\ watch_pc = "notified"
    /\ \E ok \in BOOLEAN : watch_pc' = IF ok THEN "created" ELSE "failed"
    /\ UNCHANGED <<parseVars, renderVars, typeVars, buildVars, watch_paths, events, changed_calls>>

\* watcher.watch(&watch_path, RecursiveMode::Recursive)? and the return of
\* the unwatch closure.
WatchRegister ==
    /\ watch_pc = "created"
    /\ \E ok \in BOOLEAN : watch_pc' = IF ok THEN "watching" ELSE "failed"
    /\ UNCHANGED <<parseVars, renderVars, typeVars, buildVars, watch_paths, events, changed_calls>>

\* notify delivers a result to the handler of the registered watcher.
Deliver ==
    /\ watch_pc = "watching"
    /\ Len(events) < MaxEvents
    /\ \E res \in EventResults :
          /\ events' = Append(events, res)
          /\ changed_calls' = handle_event(changed_calls, res, Root, watch_paths)
    /\ UNCHANGED <<parseVars, renderVars, typeVars, buildVars, watch_pc, watch_paths>>

\* The caller runs the closure watch returned.
Unwatch ==
    /\ watch_pc = "watching"
    /\ watch_pc' = "unwatched"
    /\ UNCHANGED <<parseVars, renderVars, typeVars, buildVars, watch_paths, events, changed_calls>>

NextWatch == WatchBegin \/ WatchCreate \/ WatchRegister \/ Deliver \/ Unwatch

SpecWatch == InitWatch /\ [][NextWatch]_vars

\* --- the handler of the build command

InitBuild ==
    /\ IdleParse
    /\ IdleRender
    /\ IdleType
    /\ IdleWatch
    /\ build_pc = "load"
    /\ build_dir \in BuildDirs
    /\ build_dir_before = build_dir
    /\ build_log = <<>>
    /\ build_result = NoExit

\* The handler runs `step`, which ends with outcome ok, fails with `error`
\* and leaves the build directory as dir.
HandlerStep(step, ok, error, dir) ==
    /\ build_pc = step
    /\ build_dir' = dir
    /\ build_log' = Append(build_log, [step |-> step, ok |-> ok])
    /\ build_pc' = handler_next(step, ok)
    /\ build_result' = handler_result(step, ok, error)
    /\ UNCHANGED <<parseVars, renderVars, typeVars, watchVars, build_dir_before>>

\* let site = Site::load(&fs)?;
BuildLoad ==
    \E ok \in BOOLEAN, dir \in Site_load_dirs(build_dir) :
        HandlerStep("load", ok, LoadError, dir)

\* let _ = fs.remove_dir_all(&site.manifest.build_dir);
BuildRemoveDir ==
    \E outcome \in remove_dir_all(build_dir) :
        HandlerStep("remove_dir_all", outcome[1], IoError, outcome[2])

\* site.sync_static_files(&mut fs)?;
BuildSyncStaticFiles ==
    \E ok \in BOOLEAN :
        \E dir \in Site_sync_static_files_dirs(build_dir, ok) :
            HandlerStep("sync_static_files", ok, SyncError, dir)

\* site.build(&mut fs)?; Ok(ExitStatus::Ok)
BuildSite ==
    \E ok \in BOOLEAN :
        \E dir \in Site_build_dirs(build_dir, ok) :
            HandlerStep("build", ok, BuildError, dir)

NextBuild == BuildLoad \/ BuildRemoveDir \/ BuildSyncStaticFiles \/ BuildSite

SpecBuild == InitBuild /\ [][NextBuild]_vars

\* ===================================================== schema engine claims

KeysOf(tbl) == [i \in 1..Len(tbl) |-> tbl[i].key]
Called(op) == call.op = op
Succeeded == call.op # "none" /\ result.ok
Failed == call.op # "none" /\ ~result.ok

RECURSIVE Parsed(_, _)
\* The (definition, source table) pairs of a definition and of its children.
Parsed(def, tbl) ==
    {<<def, tbl>>} \cup UNION {
        IF as_table(tbl[i].val) /\ tbl[i].key \in DOMAIN def.children
        THEN Parsed(def.children[tbl[i].key], tbl[i].val.t)
        ELSE {}
        : i \in 1..Len(tbl)}

\* Every (definition, source table) pair of the value the call returned.
AllParsed ==
    IF ~Succeeded THEN {}
    ELSE IF Called("new") THEN Parsed(result.val, table)
    ELSE UNION {
        IF as_table(table[i].val) /\ table[i].key \in DOMAIN result.val
        THEN Parsed(result.val[table[i].key], table[i].val.t)
        ELSE {}
        : i \in 1..Len(table)}

RECURSIVE Offences(_, _), EntryOffences(_, _)
\* What the source table of a schema called `name` holds that
\* ObjectDefinition::new rejects, in depth-first iteration order: a reserved
\* schema or child-schema name, a reserved string-valued key other than the
\* template keyword, a string that names no type.
Offences(name, tbl) ==
    IF is_reserved_field(name) THEN <<ReservedObjectNameError(name)>>
    ELSE EntryOffences(tbl, 1)
EntryOffences(tbl, i) ==
    IF i > Len(tbl) THEN <<>>
    ELSE LET k == tbl[i].key
             v == tbl[i].val
             here == IF as_table(v) THEN Offences(k, v.t)
                     ELSE IF ~as_str(v) \/ k = TEMPLATE THEN <<>>
                     ELSE IF is_reserved_field(k) THEN <<ReservedFieldError(k)>>
                     ELSE IF v.s \notin TypeNames THEN <<UnrecognizedType(v.s)>>
                     ELSE <<>>
         IN  here \o EntryOffences(tbl, i + 1)

RECURSIVE TopOffences(_, _)
\* The same for the top-level table of ObjectDefinition::from_table.
TopOffences(tbl, i) ==
    IF i > Len(tbl) THEN <<>>
    ELSE (IF as_table(tbl[i].val) THEN Offences(tbl[i].key, tbl[i].val.t) ELSE <<>>)
         \o TopOffences(tbl, i + 1)

CallOffences ==
    IF Called("new") THEN Offences(call.name, table)
    ELSE IF Called("from_table") THEN TopOffences(table, 1)
    ELSE <<>>

ReservedKinds == {"ReservedObjectNameError", "ReservedFieldError"}
HasOffence(kinds) == \E i \in 1..Len(CallOffences) : CallOffences[i].kind \in kinds

RECURSIVE AllEntries(_)
\* The entries of a table and of the tables nested in it.
AllEntries(tbl) ==
    {tbl[i] : i \in 1..Len(tbl)} \cup UNION {
        IF as_table(tbl[i].val) THEN AllEntries(tbl[i].val.t) ELSE {}
        : i \in 1..Len(tbl)}

\* C1: whenever ObjectDefinition::new succeeds, field_order of the definition
\* (and of every child definition) is the sequence of the keys of its source
\* table in iteration order: one entry per key, none dropped, none doubled,
\* the template key and keys with ignored values included.
C1_FieldOrderIsKeys ==
    \A p \in AllParsed : p[1].field_order = KeysOf(p[2])

C1_Witness ==
    /\ Called("new") /\ result.ok /\ Len(table) = 3
    /\ \E i, j, k \in 1..3 :
        /\ table[i].key = TEMPLATE /\ as_str(table[i].val)
        /\ table[j].val = OtherVal
        /\ as_table(table[k].val)

\* C2 as stated: a schema name or a key (field or child-schema name) that is
\* a reserved word, the template keyword included, makes ObjectDefinition::new
\* fail, so that no definition is returned.
C2_Original ==
    Called("new") =>
        ((is_reserved_field(call.name)
          \/ \E e \in AllEntries(table) : is_reserved_field(e.key))
         => ~result.ok)

\* C2 amended: a reserved schema name, a reserved table-valued key (child
\* schema name) or a reserved string-valued key other than the template
\* keyword, at any depth, makes new / from_table fail and return no
\* definition; the error is the reserved-name error of that name whenever
\* nothing before it in iteration order fails first.
C2_ReservedNamesFail ==
    /\ HasOffence(ReservedKinds) => Failed \/ Called("none")
    /\ (CallOffences # <<>> /\ Head(CallOffences).kind \in ReservedKinds)
          => result = Err(Head(CallOffences))
    /\ Succeeded => ~HasOffence(ReservedKinds)

C2_Witness ==
    /\ Called("new") /\ call.name = "artist" /\ Len(table) = 2
    /\ table[1].key = "name" /\ as_table(table[1].val)
    /\ table[2].key = "order" /\ as_str(table[2].val)
    /\ result = Err(ReservedFieldError("order"))

\* C3: in every definition ObjectDefinition::new returns, a string-valued
\* template entry sets template to that string and adds nothing to fields or
\* children; without such an entry template is None.
C3_TemplateBinding ==
    \A p \in AllParsed :
        LET def == p[1]
            tbl == p[2]
            tpl == {i \in 1..Len(tbl) : tbl[i].key = TEMPLATE /\ as_str(tbl[i].val)}
        IN  /\ \A i \in tpl :
                /\ def.template = Some(tbl[i].val.s)
                /\ TEMPLATE \notin DOMAIN def.fields
                /\ TEMPLATE \notin DOMAIN def.children
            /\ tpl = {} => def.template = None

C3_Witness ==
    /\ Called("new") /\ result.ok /\ Len(table) = 2
    /\ table[1] = [key |-> "name", val |-> StrVal("string")]
    /\ table[2] = [key |-> TEMPLATE, val |-> StrVal("artist")]
    /\ result.val.template = Some("artist")
    /\ DOMAIN result.val.fields = {"name"}

\* The FieldType each literal type name stands for.
FieldTypeOf ==
    [string |-> "String", number |-> "Number", date |-> "Date",
     markdown |-> "Markdown", boolean |-> "Boolean"]

\* String-valued entries at a field position: the key is not reserved.
IsFieldEntry(e) == as_str(e.val) /\ ~is_reserved_field(e.key)

\* C4 as stated: every non-reserved key with a string value that names no
\* type makes the call (of a schema with an admissible name) fail with
\* UnrecognizedType of that very string.
C4_Original ==
    (Called("new") /\ ~is_reserved_field(call.name)) =>
        \A e \in AllEntries(table) :
            (IsFieldEntry(e) /\ e.val.s \notin TypeNames)
                => result = Err(UnrecognizedType(e.val.s))

\* C4 amended: in a returned definition every non-reserved string-valued key
\* naming a type is mapped by fields to that FieldType; a non-reserved key
\* with any other string, at any depth, makes the call fail and return no
\* definition, and the error is UnrecognizedType of that string whenever
\* nothing before it in iteration order fails first.
C4_FieldTypes ==
    /\ \A p \in AllParsed : \A i \in 1..Len(p[2]) :
        LET e == p[2][i]
        IN  (IsFieldEntry(e) /\ e.val.s \in TypeNames) =>
                /\ e.key \in DOMAIN p[1].fields
                /\ p[1].fields[e.key] = FieldTypeOf[e.val.s]
    /\ HasOffence({"UnrecognizedType"}) => Failed \/ Called("none")
    /\ (CallOffences # <<>> /\ Head(CallOffences).kind = "UnrecognizedType")
          => result = Err(Head(CallOffences))

C4_Witness ==
    /\ Called("from_table") /\ Len(table) = 1
    /\ as_table(table[1].val) /\ Len(table[1].val.t) = 1
    /\ as_table(table[1].val.t[1].val)
    /\ table[1].val.t[1].val.t = <<[key |-> "name", val |-> StrVal("artist")]>>
    /\ result = Err(UnrecognizedType("artist"))

\* The top-level entries of the table that are tables themselves.
TopTables == {i \in 1..Len(table) : as_table(table[i].val)}
FailingTopTables ==
    {i \in TopTables : ~ObjectDefinition_new(table[i].key, table[i].val.t).ok}

\* C9: from_table returns a map whose keys are exactly the top-level names
\* whose value is a table, each mapped to the definition new parses from that
\* table under that name; entries that are no tables are skipped; and when
\* some top-level table fails to parse the call returns the error of the
\* first such table and no map.
C9_FromTable ==
    Called("from_table") =>
        /\ result.ok <=> FailingTopTables = {}
        /\ result.ok =>
            /\ DOMAIN result.val = {table[i].key : i \in TopTables}
            /\ \A i \in TopTables :
                /\ result.val[table[i].key]
                     = ObjectDefinition_new(table[i].key, table[i].val.t).val
                /\ result.val[table[i].key].name = table[i].key
        /\ ~result.ok =>
            LET first == CHOOSE i \in FailingTopTables :
                            \A j \in FailingTopTables : i <= j
            IN  result = ObjectDefinition_new(table[first].key, table[first].val.t)

C9_Witness ==
    /\ Called("from_table") /\ result.ok /\ Len(table) = 2
    /\ Cardinality(TopTables) = 1
    /\ \E i \in TopTables : Len(table[i].val.t) = 1
    /\ \E i \in 1..2 : as_str(table[i].val)

\* ================================================= rendering pipeline claims

\* A schema-bound page was rendered and the template engine was handed a context.
SchemaBoundRendered ==
    IsPage(page) /\ page.template.some /\ IsOut(out) /\ out.res.ok
RenderedContext == out.res.val.context
TargetObject == Deref(objects_map, page.template.v.object)
SchemaKey == definitions[page.template.v.definition].name
ComputedNames == {"object_name", "order", "path"}

\* C5: the context a schema-bound page hands to the template has the
\* definition's name as a top-level key, and its value is the Object's values
\* map plus object_name, order and path, which hold the Object's own
\* object_name, order and path even when values has keys of those names.
C5_EnrichedObjectUnderSchemaName ==
    SchemaBoundRendered =>
        /\ SchemaKey \in DOMAIN RenderedContext
        /\ "object" \in DOMAIN RenderedContext[SchemaKey]
        /\ LET m == RenderedContext[SchemaKey].object
               o == TargetObject
           IN  /\ DOMAIN m = DOMAIN o.values \cup ComputedNames
               /\ \A k \in DOMAIN o.values \ ComputedNames :
                      m[k] = FieldValue_to_value(o.values[k])
               /\ m["object_name"] = LScalar(o.object_name)
               /\ m["order"] = LInt(o.order)
               /\ m["path"] = LScalar(o.path)

\* C6: merging the `objects` and `page` globals never overwrites the value
\* under the schema-named key: for every definition name, "objects" and
\* "page" included, the final context holds the enriched object map there.
C6_SchemaKeyNotClobbered ==
    SchemaBoundRendered =>
        /\ SchemaKey \in DOMAIN RenderedContext
        /\ RenderedContext[SchemaKey] = LObject(ObjectVals(TargetObject))

FilenameRank == [a |-> 1, b |-> 2]
\* o1 comes no later than o2: by order, and by filename when orders are equal.
ListedBefore(o1, o2) ==
    \/ o1.order < o2.order
    \/ o1.order = o2.order /\ FilenameRank[o1.filename] <= FilenameRank[o2.filename]

\* C7: every per-schema sequence of the `objects` mapping handed to the
\* template lists the schema's objects by order ascending, equal orders by
\* filename ascending, whatever the order of the input objects_map.
C7_ListingSorted ==
    (IsOut(out) /\ out.res.ok) =>
        \A name \in DOMAIN objects_map :
            LET objs == objects_map[name]
                listing == RenderedContext["objects"].object[name].array
            IN  \E f \in [1..Len(objs) -> 1..Len(objs)] :
                    /\ \A i, j \in 1..Len(objs) : i # j => f[i] # f[j]
                    /\ \A i, j \in 1..Len(objs) :
                           i < j => ListedBefore(objs[f[i]], objs[f[j]])
                    /\ listing = [i \in 1..Len(objs) |-> liquid_object(objs[f[i]])]

C10_ExactlyOneOfContentAndTemplate ==
    /\ IsPage(page) => (page.content.some # page.template.some)
    /\ IsOut(out) => out.res # Panic

C10_Witness ==
    /\ IsPage(page) /\ page.content.some /\ ~page.template.some
    /\ IsOut(out) /\ out.res.ok

\* The elements of a sequence.
Range(seq) == {seq[i] : i \in 1..Len(seq)}

\* An entry of the table whose value is neither a table nor a string.
IsOtherEntry(e) == ~as_table(e.val) /\ ~as_str(e.val)

\* C11: in ObjectDefinition::new an entry whose value is neither a table nor
\* a string raises no error whatever its key, reserved or not (a call fails
\* only for a reserved name or a string entry); its key is in field_order
\* and in neither fields nor children, and a `template` key of that kind
\* leaves template unset.  Every table-valued entry is a child and never a
\* field; the keys of fields and children are disjoint and both are keys of
\* field_order.
C11_OtherValuesIgnored ==
    /\ (call.op # "none" /\ CallOffences = <<>>) => result.ok
    /\ \A pr \in AllParsed :
          LET def == pr[1]
              tbl == pr[2]
          IN  /\ \A i \in 1..Len(tbl) :
                    /\ IsOtherEntry(tbl[i]) =>
                          /\ tbl[i].key \in Range(def.field_order)
                          /\ tbl[i].key \notin DOMAIN def.fields
                          /\ tbl[i].key \notin DOMAIN def.children
                          /\ (tbl[i].key = TEMPLATE => def.template = None)
                    /\ as_table(tbl[i].val) =>
                          /\ tbl[i].key \in DOMAIN def.children
                          /\ tbl[i].key \notin DOMAIN def.fields
              /\ DOMAIN def.fields \cap DOMAIN def.children = {}
              /\ DOMAIN def.fields \subseteq Range(def.field_order)
              /\ DOMAIN def.children \subseteq Range(def.field_order)

\* A successful ObjectDefinition::new of a table that holds a reserved key
\* and the template key with ignored values next to a child table.
C11_Witness ==
    /\ Called("new") /\ Succeeded
    /\ \E i, j, k \in 1..Len(table) :
          /\ table[i].key = "order" /\ IsOtherEntry(table[i])
          /\ table[j].key = TEMPLATE /\ IsOtherEntry(table[j])
          /\ table[k].key = "name" /\ as_table(table[k].val)
          /\ "name" \in DOMAIN result.val.children

\* ===================================================== template type claims

\* C12: TemplateType::from_ext(e).extension() is e in lower case for every
\* spelling, in any letter case, of html, css, csv, json and rss; the empty
\* extension gives Default and "html"; every other extension r gives
\* Unknown and r in lower case.
C12_ExtensionIsDeclaredType ==
    IsExt(ext_out) =>
        \A w \in ExtWords :
            ext \in CaseVariants(w) =>
                /\ ext_out.s = (IF w = Str_empty THEN Str_html ELSE w)
                /\ w = Str_empty => template_type = TemplateType("Default")
                /\ w \in {<<"t", "x", "t">>, <<"m", "d">>} =>
                      template_type = Unknown(w)

\* ===================================================== file watching claims

\* The invocations of `changed` that carried an empty path list.
EmptyCalls == {i \in 1..Len(changed_calls) : changed_calls[i] = <<>>}

\* The path canonicalizes and then either lies outside the root or lies
\* under it with a root-relative path that starts with one of dirs.
Passes(p, dirs) ==
    /\ canonicalize(p).ok
    /\ LET f == canonicalize(p).val
       IN  starts_with(f, Root) =>
             \E i \in 1..Len(dirs) :
                starts_with(SubSeq(f, Len(Root) + 1, Len(f)), dirs[i])

\* Every invocation after the first carries a non-empty list of paths that
\* all belong to one delivered event and pass; later invocations belong to
\* later events, so an event with no passing path, and an error, have none.
LaterCallsFiltered(dirs) ==
    \E f \in [2..Len(changed_calls) -> 1..Len(events)] :
        /\ \A j, k \in DOMAIN f : j < k => f[j] < f[k]
        /\ \A j \in DOMAIN f :
              /\ events[f[j]].ok
              /\ changed_calls[j] # <<>>
              /\ \A p \in Range(changed_calls[j]) :
                    p \in Range(events[f[j]].val) /\ Passes(p, dirs)

\* The watch paths as directories relative to the root: a watch path given
\* as an absolute path under the root stands for its root-relative part.
RelativeWatchPaths ==
    [i \in 1..Len(watch_paths) |->
        IF starts_with(watch_paths[i], Root)
        THEN SubSeq(watch_paths[i], Len(Root) + 1, Len(watch_paths[i]))
        ELSE watch_paths[i]]

\* C13 as stated: once watch has been entered, `changed` has been invoked
\* exactly once with an empty list, as its first invocation and before any
\* event; every later invocation carries a non-empty list of paths of one
\* event that canonicalize and lie outside the root or under it with a
\* root-relative path starting with one of watch_paths; filtered-out events
\* and errors invoke nothing.
C13_Original ==
    /\ watch_pc # "idle" => EmptyCalls = {1}
    /\ events # <<>> => EmptyCalls = {1}
    /\ LaterCallsFiltered(watch_paths)

\* C13: when the root canonicalizes, watch invokes `changed` exactly once
\* with an empty list, before the watcher is created or registered and
\* before any event is delivered, also when creating or registering the
\* watcher then fails; when the root does not canonicalize watch panics and
\* `changed` is never invoked.  Every later invocation carries a non-empty
\* list of paths of one event that canonicalize and lie outside the root or
\* under it with a root-relative path starting with one of watch_paths, a
\* watch path under the root taken relative to it; events whose paths are
\* all filtered out, and errors, invoke nothing.
C13_WatchCallbacks ==
    /\ watch_pc \in {"idle", "panicked"} => changed_calls = <<>>
    /\ watch_pc \notin {"idle", "panicked"} => EmptyCalls = {1}
    /\ events # <<>> => watch_pc \in {"watching", "unwatched"}
    /\ LaterCallsFiltered(RelativeWatchPaths)

\* A registered watcher got an event with no watched path and an event
\* with a deleted file and a file under a watch path given absolutely.
C13_Witness ==
    /\ watch_pc = "watching"
    /\ watch_paths = <<Dir_pages, Dir_objects>>
    /\ events = <<Ok(<<P_layout>>), Ok(<<P_gone, P_object>>)>>
    /\ changed_calls = <<<<>>, <<P_object>>>>

\* ===================================================== build command claims

\* The order the handler's steps are written in.
HandlerOrder == <<"load", "remove_dir_all", "sync_static_files", "build">>

\* The handler has returned.
Returned == build_result # NoExit

\* The step ran and failed / succeeded.
StepFailed(i) == i <= Len(build_log) /\ ~build_log[i].ok
StepSucceeded(i) == i <= Len(build_log) /\ build_log[i].ok

\* C14: the build handler runs Site::load, the removal of the build
\* directory, sync_static_files and build in this order, each at most once.
\* If Site::load fails its error is returned, no later step runs and the
\* build directory is as it was; a failed remove_dir_all does not end the
\* handler, sync_static_files runs after it; if sync_static_files fails its
\* error is returned and build does not run; the handler returns
\* ExitStatus::Ok only when load, sync_static_files and build all succeeded.
C14_BuildStepsInOrder ==
    /\ Len(build_log) <= Len(HandlerOrder)
    /\ \A i \in 1..Len(build_log) : build_log[i].step = HandlerOrder[i]
    /\ Returned <=> build_pc = "return"
    /\ StepFailed(1) =>
          /\ build_result = [res |-> Err(LoadError)]
          /\ Len(build_log) = 1
          /\ build_dir = build_dir_before
    /\ StepFailed(2) =>
          /\ Len(build_log) = 2 => ~Returned /\ build_pc = "sync_static_files"
          /\ Returned => Len(build_log) >= 3
    /\ StepFailed(3) =>
          /\ build_result = [res |-> Err(SyncError)]
          /\ Len(build_log) = 3
    /\ (Returned /\ build_result.res.ok) =>
          /\ build_result.res.val = ExitStatus_Ok
          /\ Len(build_log) = 4
          /\ StepSucceeded(1) /\ StepSucceeded(3) /\ StepSucceeded(4)
    /\ (Returned /\ StepSucceeded(1) /\ StepSucceeded(3) /\ StepSucceeded(4)) =>
          build_result = [res |-> Ok(ExitStatus_Ok)]

\* The handler returned ExitStatus::Ok although remove_dir_all failed on a
\* build directory that was there, and left the build directory with the
\* static files and the pages.
C14_Witness ==
    /\ build_result = [res |-> Ok(ExitStatus_Ok)]
    /\ build_dir_before = Dir({"stale"})
    /\ StepFailed(2)
    /\ build_dir = Dir({"stale", "static", "page"})

====
